---- MODULE Spec2Model ----
(***************************************************************************)
(* The JSONAPIAdapter of @ember-data/adapter (addon/json-api.js): the      *)
(* per-record field history kept in the FieldsForRecord WeakMap and the    *)
(* adapter methods that read and write it (findRecord, shouldReloadRecord, *)
(* buildQuery), and findMany with the coalescing of find requests.         *)
(*                                                                         *)
(* A JavaScript string is modelled as a tuple of one-character strings,    *)
(* so that split(',') and trim() are computed as the code computes them.   *)
(* An optional value (a property that may be undefined) is modelled as a   *)
(* tuple of length 0 (undefined) or 1 (the value).                         *)
(***************************************************************************)
EXTENDS Integers, Sequences, FiniteSets, TLC

VARIABLES
  supportsJSONAPIFields,  \* the adapter's field tracking flag
  coalesceFindRequests,   \* the adapter's coalescing flag
  FieldsForRecord,        \* the WeakMap: record -> array of field selections
  call,                   \* the last adapter call: its arguments and result
  tick,                   \* the current run loop tick
  scheduled,              \* every fetch scheduled so far, oldest first
  pending,                \* the coalescing groups of this tick, oldest first
  dispatched,             \* the requests handed to ajax, oldest first
  outcomes,               \* the outcome of each completed request, by position
  results                 \* what each completed fetch gave its caller, by handle

vars == <<supportsJSONAPIFields, coalesceFindRequests, FieldsForRecord, call,
          tick, scheduled, pending, dispatched, outcomes, results>>

fieldVars == <<supportsJSONAPIFields, FieldsForRecord, call>>
coalesceVars == <<coalesceFindRequests, tick, scheduled, pending, dispatched,
                  outcomes, results>>
responseVars == <<outcomes, results>>

-----------------------------------------------------------------------------
(* Bounds *)

\* The most history entries, over all records, the model lets accumulate.
MaxHistory == 3

\* The run loop ticks the model follows.
MaxTicks == 2

\* The most fetches the model lets the store schedule.
MaxFetches == 3

\* The most ids one call of findMany is given.
MaxIds == 3

-----------------------------------------------------------------------------
(* Strings *)

Whitespace == {" "}

RECURSIVE split(_)
\* String.prototype.split(','): the pieces between the commas, in order;
\* the empty string gives one empty piece.
split(s) ==
  IF s = <<>> THEN << <<>> >>
  ELSE LET rest == split(Tail(s))
       IN  IF Head(s) = ","
           THEN << <<>> >> \o rest
           ELSE << <<Head(s)>> \o Head(rest) >> \o Tail(rest)

RECURSIVE trimStart(_)
trimStart(s) ==
  IF s # <<>> /\ Head(s) \in Whitespace THEN trimStart(Tail(s)) ELSE s

RECURSIVE trimEnd(_)
trimEnd(s) ==
  IF s # <<>> /\ s[Len(s)] \in Whitespace
  THEN trimEnd(SubSeq(s, 1, Len(s) - 1))
  ELSE s

\* String.prototype.trim()
trim(s) == trimEnd(trimStart(s))

\* Array.prototype.indexOf: the 0-based index of the first element equal to
\* x, or -1.
indexOf(list, x) ==
  IF \E i \in 1..Len(list) : list[i] = x
  THEN (CHOOSE i \in 1..Len(list) :
          list[i] = x /\ \A j \in 1..(i - 1) : list[j] # x) - 1
  ELSE -1

\* split(',').map(field => field.trim())
fieldList(s) == [i \in 1..Len(split(s)) |-> trim(split(s)[i])]

\* JavaScript truthiness of a string: only the empty string is falsy.
truthyString(s) == s # <<>>

-----------------------------------------------------------------------------
(* Records, field selections and snapshots *)

\* Two live record instances of the same type and with the same id.
Records == {"r1", "r2"}
modelName(r) == "post"
recordId(r) == <<"1">>

\* A field selection: an object from group keys to comma-delimited lists.
\* The selections the calls are made with.
FieldSelections ==
  { <<>>,                                  \* {}
    [a |-> <<>>],                          \* {a: ""}
    [a |-> <<" ">>],                       \* {a: " "}
    [a |-> <<"x">>],                       \* {a: "x"}
    [a |-> <<"x", ",", "y">>],             \* {a: "x,y"}
    [a |-> <<"y", ",", " ", "x">>],        \* {a: "y, x"}
    [b |-> <<"y">>],                       \* {b: "y"}
    [a |-> <<"x">>, b |-> <<"y">>] }       \* {a: "x", b: "y"}

\* snapshot.adapterOptions: undefined, or an object whose fields is
\* undefined or a field selection.
AdapterOptions ==
  { <<>>, << [fields |-> <<>>] >> }
    \cup { << [fields |-> <<F>>] >> : F \in FieldSelections }

\* The snapshots the calls are made with: every option on the first record,
\* a few on the second.
OtherAdapterOptions ==
  { <<>>, << [fields |-> << [a |-> <<" ">>] >>] >>,
    << [fields |-> << [a |-> <<"x">>] >>] >> }

Snapshots ==
  [record : {"r1"}, adapterOptions : AdapterOptions]
    \cup [record : {"r2"}, adapterOptions : OtherAdapterOptions]

\* snapshot.adapterOptions && snapshot.adapterOptions.fields, as an optional
\* value: an object is truthy whatever its keys.
snapshotFieldsOf(snapshot) ==
  IF snapshot.adapterOptions = <<>>
  THEN <<>>
  ELSE snapshot.adapterOptions[1].fields

-----------------------------------------------------------------------------
(* The module functions of json-api.js *)

\* hasSomeFields with the subset test turned round: every cached field is
\* among the requested ones.
hasSomeFields_Reversed(cachedFields, snapshotFields) ==
  LET listOfCachedFields == fieldList(cachedFields)
      listOfSnapshotFields == fieldList(snapshotFields)
  IN  \A i \in 1..Len(listOfCachedFields) :
        indexOf(listOfSnapshotFields, listOfCachedFields[i]) > -1

hasSomeFields(cachedFields, snapshotFields) ==
  LET listOfCachedFields == fieldList(cachedFields)
      listOfSnapshotFields == fieldList(snapshotFields)
      every == \A i \in 1..Len(listOfSnapshotFields) :
                 indexOf(listOfCachedFields, listOfSnapshotFields[i]) > -1
  IN  every
        \/ (Len(listOfSnapshotFields) < Len(listOfCachedFields) /\ every)

\* The keys of an object in the order for...in visits them.
RECURSIVE keysOf(_)
keysOf(obj) ==
  IF DOMAIN obj = {} THEN <<>>
  ELSE LET k == CHOOSE k \in DOMAIN obj : TRUE
       IN  <<k>> \o keysOf([j \in DOMAIN obj \ {k} |-> obj[j]])

\* The for...in loop of equalFields over the keys still to visit. isEqual is
\* "undefined", "true" or "false"; the loop breaks once it is "false".
RECURSIVE forIn(_, _, _, _)
forIn(entry, snapshotFields, keys, isEqual) ==
  IF keys = <<>> THEN isEqual
  ELSE LET key == Head(keys)
           next == IF key \in DOMAIN entry /\ truthyString(entry[key])
                   THEN IF hasSomeFields(entry[key], snapshotFields[key])
                        THEN "true" ELSE "false"
                   ELSE "false"
       IN  IF next = "false" THEN "false"
           ELSE forIn(entry, snapshotFields, Tail(keys), next)

\* equalFields taking each key of the request from whichever entry holds it.
equalFields_Combines(cachedFields, snapshotFields) ==
  /\ DOMAIN snapshotFields # {}
  /\ \A key \in DOMAIN snapshotFields :
       \E n \in 1..Len(cachedFields) :
         forIn(cachedFields[n], [k \in {key} |-> snapshotFields[k]], <<key>>,
               "undefined") = "true"

\* cachedFields.some(entry => ...): some() takes undefined as false.
equalFields(cachedFields, snapshotFields) ==
  \E n \in 1..Len(cachedFields) :
    forIn(cachedFields[n], snapshotFields, keysOf(snapshotFields),
          "undefined") = "true"

\* FieldsForRecord.get finding the history under the type and the id string.
weakMapGet_ByTypeAndId(map, record) ==
  LET same == {q \in DOMAIN map : /\ modelName(q) = modelName(record)
                                   /\ recordId(q) = recordId(record)}
  IN  IF same # {} THEN <<map[CHOOSE q \in same : TRUE]>> ELSE <<>>

\* FieldsForRecord.get(record) as an optional value.
weakMapGet(map, record) ==
  IF record \in DOMAIN map THEN <<map[record]>> ELSE <<>>

\* FieldsForRecord.set(record, value)
weakMapSet(map, record, value) ==
  [r \in DOMAIN map \cup {record} |-> IF r = record THEN value ELSE map[r]]

\* captureFields answering "don't fetch" for a record never seen.
captureFields_FirstSkips(map, record, snapshotFields) ==
  LET cachedFields == weakMapGet(map, record)
  IN  IF cachedFields # <<>> /\ Len(cachedFields[1]) > 0
      THEN IF equalFields(cachedFields[1], snapshotFields)
           THEN [returns |-> FALSE, map |-> map]
           ELSE [returns |-> TRUE,
                 map |-> weakMapSet(map, record,
                                    Append(cachedFields[1], snapshotFields))]
      ELSE [returns |-> FALSE,
            map |-> weakMapSet(map, record, <<snapshotFields>>)]

\* captureFields with unshift in place of push.
captureFields_Unshift(map, record, snapshotFields) ==
  LET cachedFields == weakMapGet(map, record)
  IN  IF cachedFields # <<>> /\ Len(cachedFields[1]) > 0
      THEN IF equalFields(cachedFields[1], snapshotFields)
           THEN [returns |-> FALSE, map |-> map]
           ELSE [returns |-> TRUE,
                 map |-> weakMapSet(map, record,
                                    <<snapshotFields>> \o cachedFields[1])]
      ELSE [returns |-> TRUE,
            map |-> weakMapSet(map, record, <<snapshotFields>>)]

\* captureFields setting a fresh one-entry array for fields not seen.
captureFields_Replaces(map, record, snapshotFields) ==
  LET cachedFields == weakMapGet(map, record)
  IN  IF cachedFields # <<>> /\ Len(cachedFields[1]) > 0
         /\ equalFields(cachedFields[1], snapshotFields)
      THEN [returns |-> FALSE, map |-> map]
      ELSE [returns |-> TRUE,
            map |-> weakMapSet(map, record, <<snapshotFields>>)]

\* captureFields keeping the two latest entries of a history.
captureFields_EvictsOldest(map, record, snapshotFields) ==
  LET cachedFields == weakMapGet(map, record)
  IN  IF cachedFields # <<>> /\ Len(cachedFields[1]) > 0
      THEN IF equalFields(cachedFields[1], snapshotFields)
           THEN [returns |-> FALSE, map |-> map]
           ELSE [returns |-> TRUE,
                 map |-> weakMapSet(map, record,
                           IF Len(cachedFields[1]) > 1
                           THEN Append(Tail(cachedFields[1]), snapshotFields)
                           ELSE Append(cachedFields[1], snapshotFields))]
      ELSE [returns |-> TRUE,
            map |-> weakMapSet(map, record, <<snapshotFields>>)]

\* captureFields(record, snapshotFields): what it returns and the WeakMap it
\* leaves.
captureFields(map, record, snapshotFields) ==
  LET cachedFields == weakMapGet(map, record)
  IN  IF cachedFields # <<>> /\ Len(cachedFields[1]) > 0
      THEN IF equalFields(cachedFields[1], snapshotFields)
           THEN [returns |-> FALSE, map |-> map]
           ELSE [returns |-> TRUE,
                 map |-> weakMapSet(map, record,
                                    Append(cachedFields[1], snapshotFields))]
      ELSE [returns |-> TRUE,
            map |-> weakMapSet(map, record, <<snapshotFields>>)]

-----------------------------------------------------------------------------
(* The field history as the calls see it *)

\* The history of a record: empty when the WeakMap has no entry for it.
History(map, record) ==
  IF record \in DOMAIN map THEN map[record] ELSE <<>>

RECURSIVE sumOver(_, _)
sumOver(map, rs) ==
  IF rs = {} THEN 0
  ELSE LET r == CHOOSE r \in rs : TRUE
       IN  Len(History(map, r)) + sumOver(map, rs \ {r})

HistorySize == sumOver(FieldsForRecord, Records)

-----------------------------------------------------------------------------
(* The adapter methods *)

\* pathForType(modelName): pluralize(dasherize(modelName)) for the model
\* names in use.
pathForType(name) ==
  CASE name = "post" -> "posts"
    [] name = "comment" -> "comments"

\* buildURL for a record operation: the path of the type, then the id.
\* A URL is the tuple of its path segments; no host or namespace is set.
buildURL(name, id, requestType) ==
  IF requestType \in {"findRecord", "updateRecord"}
  THEN <<pathForType(name), id>>
  ELSE <<pathForType(name)>>

\* RESTAdapter.buildQuery: the base query, an empty object here.
superBuildQuery(snapshot) == <<>>

\* buildQuery keeping the fields the base query came with.
buildQueryFrom_KeepsBase(query, snapshot) ==
  IF snapshot.adapterOptions # <<>>
      /\ snapshot.adapterOptions[1].fields # <<>>
      /\ "fields" \notin DOMAIN query
  THEN [k \in DOMAIN query \cup {"fields"} |->
          IF k = "fields" THEN snapshot.adapterOptions[1].fields[1]
          ELSE query[k]]
  ELSE query

\* buildQuery after its call of this._super, whose value is query.
buildQueryFrom(query, snapshot) ==
  IF snapshot.adapterOptions # <<>>
      /\ snapshot.adapterOptions[1].fields # <<>>
  THEN [k \in DOMAIN query \cup {"fields"} |->
          IF k = "fields" THEN snapshot.adapterOptions[1].fields[1]
          ELSE query[k]]
  ELSE query

buildQuery(snapshot) == buildQueryFrom(superBuildQuery(snapshot), snapshot)

\* RESTAdapter.findRecord: one GET of the record's URL with the built query.
superFindRecord(name, id, snapshot) ==
  [verb |-> "GET",
   url  |-> buildURL(name, id, "findRecord"),
   data |-> buildQuery(snapshot)]

\* findRecord without its call of this._super.
findRecord_NoSuper(flag, map, name, id, snapshot) ==
  LET snapshotFields == snapshotFieldsOf(snapshot)
  IN  IF snapshotFields # <<>>
      THEN IF flag
           THEN [map |-> captureFields(map, snapshot.record,
                                       snapshotFields[1]).map,
                 deprecated |-> FALSE, super |-> <<>>, atSuper |-> <<>>]
           ELSE [map |-> map, deprecated |-> TRUE, super |-> <<>>,
                 atSuper |-> <<>>]
      ELSE [map |-> map, deprecated |-> FALSE, super |-> <<>>,
            atSuper |-> <<>>]

\* findRecord issuing no request when captureFields answers "don't fetch".
findRecord_SkipsCovered(flag, map, name, id, snapshot) ==
  LET snapshotFields == snapshotFieldsOf(snapshot)
      super == <<superFindRecord(name, id, snapshot)>>
  IN  IF snapshotFields # <<>>
      THEN IF flag
           THEN LET captured == captureFields(map, snapshot.record,
                                              snapshotFields[1])
                IN  [map |-> captured.map, deprecated |-> FALSE,
                     super |-> IF captured.returns THEN super ELSE <<>>,
                     atSuper |-> <<captured.map>>]
           ELSE [map |-> map, deprecated |-> TRUE, super |-> super,
                 atSuper |-> <<map>>]
      ELSE [map |-> map, deprecated |-> FALSE, super |-> super,
            atSuper |-> <<map>>]

\* findRecord capturing the fields without the test of supportsJSONAPIFields.
findRecord_AlwaysCaptures(flag, map, name, id, snapshot) ==
  LET snapshotFields == snapshotFieldsOf(snapshot)
      super == <<superFindRecord(name, id, snapshot)>>
  IN  IF snapshotFields # <<>>
      THEN LET captured == captureFields(map, snapshot.record,
                                         snapshotFields[1])
           IN  [map |-> captured.map, deprecated |-> ~flag,
                super |-> super, atSuper |-> <<captured.map>>]
      ELSE [map |-> map, deprecated |-> FALSE, super |-> super,
            atSuper |-> <<map>>]

\* findRecord(store, type, id, snapshot): the WeakMap it leaves, whether it
\* deprecates, the requests of its calls of this._super, and the WeakMap as
\* it stands when this._super is called (an optional value).
findRecord(flag, map, name, id, snapshot) ==
  LET snapshotFields == snapshotFieldsOf(snapshot)
      super == <<superFindRecord(name, id, snapshot)>>
  IN  IF snapshotFields # <<>>
      THEN IF flag
           THEN LET captured == captureFields(map, snapshot.record,
                                              snapshotFields[1])
                IN  [map |-> captured.map, deprecated |-> FALSE,
                     super |-> super, atSuper |-> <<captured.map>>]
           ELSE [map |-> map, deprecated |-> TRUE, super |-> super,
                 atSuper |-> <<map>>]
      ELSE [map |-> map, deprecated |-> FALSE, super |-> super,
            atSuper |-> <<map>>]

RECURSIVE join(_)
\* Array.prototype.join(','): the elements with a comma between them.
join(list) ==
  IF list = <<>> THEN <<>>
  ELSE IF Len(list) = 1 THEN list[1]
  ELSE list[1] \o <<",">> \o join(Tail(list))

\* findMany sending the ids last to first.
findMany_Reversed(name, ids) ==
  [verb |-> "GET",
   url  |-> buildURL(name, ids, "findMany"),
   data |-> [filter |->
              [id |-> join([i \in 1..Len(ids) |-> ids[Len(ids) + 1 - i]])]]]

\* findMany sending the first id alone.
findMany_FirstIdOnly(name, ids) ==
  [verb |-> "GET",
   url  |-> buildURL(name, ids, "findMany"),
   data |-> [filter |-> [id |-> ids[1]]]]

\* findMany asking for the URL of the first record.
findMany_RecordURL(name, ids) ==
  [verb |-> "GET",
   url  |-> buildURL(name, ids[1], "findRecord"),
   data |-> [filter |-> [id |-> join(ids)]]]

\* findMany(store, type, ids, snapshots): the request it hands to ajax.
findMany(name, ids) ==
  [verb |-> "GET",
   url  |-> buildURL(name, ids, "findMany"),
   data |-> [filter |-> [id |-> join(ids)]]]

\* shouldReloadRecord without the test of supportsJSONAPIFields.
shouldReloadRecord_IgnoresFlag(flag, map, snapshot) ==
  LET snapshotFields == snapshotFieldsOf(snapshot)
  IN  IF snapshotFields # <<>>
      THEN captureFields(map, snapshot.record, snapshotFields[1])
      ELSE [returns |-> FALSE, map |-> map]

\* shouldReloadRecord asking for a reload of a record never seen when the
\* snapshot has no fields.
shouldReloadRecord_ReloadsUnseen(flag, map, snapshot) ==
  LET snapshotFields == snapshotFieldsOf(snapshot)
  IN  IF flag /\ snapshotFields # <<>>
      THEN captureFields(map, snapshot.record, snapshotFields[1])
      ELSE [returns |-> flag /\ weakMapGet(map, snapshot.record) = <<>>,
            map |-> map]

\* shouldReloadRecord(store, snapshot): what it returns and the WeakMap it
\* leaves.
shouldReloadRecord(flag, map, snapshot) ==
  LET snapshotFields == snapshotFieldsOf(snapshot)
  IN  IF flag /\ snapshotFields # <<>>
      THEN captureFields(map, snapshot.record, snapshotFields[1])
      ELSE [returns |-> FALSE, map |-> map]

\* serializeIntoHash(store, type, snapshot): the JSON:API document of the
\* record, the resource wrapped under the data key.
serializeIntoHash(name, snapshot) ==
  [data |-> [type |-> pathForType(name), id |-> snapshot.id,
             attributes |-> snapshot.attributes]]

\* updateRecord sending the record with PUT.
updateRecord_Put(name, snapshot) ==
  [verb |-> "PUT",
   url  |-> buildURL(name, snapshot.id, "updateRecord"),
   data |-> serializeIntoHash(name, snapshot)]

\* updateRecord(store, type, snapshot): the request it hands to ajax.
updateRecord(name, snapshot) ==
  [verb |-> "PATCH",
   url  |-> buildURL(name, snapshot.id, "updateRecord"),
   data |-> serializeIntoHash(name, snapshot)]

\* A header value is a string; the empty string alone is falsy.
truthyHeader(value) == value # ""

\* ajaxOptions never leaving the Accept header of the parent in place.
ajaxOptions_AlwaysSets(hash) ==
  [hash EXCEPT !.headers =
     [k \in DOMAIN hash.headers \cup {"Accept"} |->
        IF k = "Accept" THEN "application/vnd.api+json" ELSE hash.headers[k]]]

\* ajaxOptions(url, type, options) after its call of this._super, whose
\* value is hash: hash.headers['Accept'] || 'application/vnd.api+json'.
ajaxOptions(hash) ==
  [hash EXCEPT !.headers =
     [k \in DOMAIN hash.headers \cup {"Accept"} |->
        IF k = "Accept"
        THEN IF "Accept" \in DOMAIN hash.headers
                /\ truthyHeader(hash.headers["Accept"])
             THEN hash.headers["Accept"]
             ELSE "application/vnd.api+json"
        ELSE hash.headers[k]]]

-----------------------------------------------------------------------------
(* The state machine of the field tracking *)

NoCall ==
  [op |-> "none", snapshot |-> [record |-> "r1", adapterOptions |-> <<>>],
   tracking |-> FALSE, before |-> <<>>, returns |-> <<>>,
   deprecated |-> FALSE, super |-> <<>>, outcome |-> <<>>,
   map |-> <<>>, atSuper |-> <<>>]

InitFields ==
  /\ supportsJSONAPIFields = FALSE
  /\ FieldsForRecord = <<>>
  /\ call = NoCall

InitCoalesce ==
  /\ coalesceFindRequests = FALSE
  /\ tick = 1
  /\ scheduled = <<>>
  /\ pending = <<>>
  /\ dispatched = <<>>
  /\ outcomes = <<>>
  /\ results = <<>>

Init == InitFields /\ InitCoalesce

\* The application sets the supportsJSONAPIFields property.
SetSupportsJSONAPIFields ==
  /\ supportsJSONAPIFields' = ~supportsJSONAPIFields
  /\ UNCHANGED <<FieldsForRecord, call>>
  /\ UNCHANGED coalesceVars

\* The store asks shouldReloadRecord about a snapshot.
CallShouldReloadRecord ==
  \E snapshot \in Snapshots :
    LET out == shouldReloadRecord(supportsJSONAPIFields, FieldsForRecord,
                                  snapshot)
    IN  /\ HistorySize < MaxHistory
        /\ FieldsForRecord' = out.map
        /\ call' = [op |-> "shouldReloadRecord", snapshot |-> snapshot,
                    tracking |-> supportsJSONAPIFields,
                    before |-> History(FieldsForRecord, snapshot.record),
                    returns |-> <<out.returns>>,
                    deprecated |-> FALSE, super |-> <<>>, outcome |-> <<>>,
                    map |-> FieldsForRecord, atSuper |-> <<>>]
        /\ UNCHANGED supportsJSONAPIFields
        /\ UNCHANGED coalesceVars

\* The store calls findRecord with a snapshot.
CallFindRecord ==
  \E snapshot \in Snapshots :
    LET out == findRecord(supportsJSONAPIFields, FieldsForRecord,
                          modelName(snapshot.record),
                          recordId(snapshot.record), snapshot)
    IN  /\ HistorySize < MaxHistory
        /\ FieldsForRecord' = out.map
        /\ call' = [op |-> "findRecord", snapshot |-> snapshot,
                    tracking |-> supportsJSONAPIFields,
                    before |-> History(FieldsForRecord, snapshot.record),
                    returns |-> <<>>,
                    deprecated |-> out.deprecated, super |-> out.super,
                    outcome |-> <<>>,
                    map |-> FieldsForRecord, atSuper |-> out.atSuper]
        /\ UNCHANGED supportsJSONAPIFields
        /\ UNCHANGED coalesceVars

Next ==
  \/ SetSupportsJSONAPIFields
  \/ CallShouldReloadRecord
  \/ CallFindRecord

Spec == Init /\ [][Next]_vars

-----------------------------------------------------------------------------
(* The state machine of the coalescing of find requests *)

ResourceTypes == {"post", "comment"}
Ids == { <<"1">>, <<"2">> }

\* The snapshot of a fetch the store schedules: no adapterOptions.
fetchSnapshot == [record |-> "r1", adapterOptions |-> <<>>]

\* The position of the coalescing group of a type among the groups of this
\* tick, 0 when the type has none.
groupOf(groups, type) ==
  IF \E i \in 1..Len(groups) : groups[i].type = type
  THEN CHOOSE i \in 1..Len(groups) : groups[i].type = type
  ELSE 0

\* The groups after a fetch of (type, id) with handle h has joined: the id is
\* accumulated once, in first-scheduled order.
addToGroup(groups, type, id, h) ==
  LET i == groupOf(groups, type)
  IN  IF i = 0
      THEN Append(groups, [type |-> type, ids |-> <<id>>, handles |-> {h}])
      ELSE [groups EXCEPT
              ![i].ids = IF \E j \in 1..Len(@) : @[j] = id
                         THEN @ ELSE Append(@, id),
              ![i].handles = @ \cup {h}]

\* Any setting of coalesceFindRequests, fixed for the adapter's life.
InitAnyCoalesce ==
  /\ InitFields
  /\ coalesceFindRequests \in BOOLEAN
  /\ tick = 1
  /\ scheduled = <<>>
  /\ pending = <<>>
  /\ dispatched = <<>>
  /\ outcomes = <<>>
  /\ results = <<>>

\* scheduleFetch(resourceType, id): the fetch joins the group of its type,
\* or, with coalescing disabled, issues its own single-id request at once.
ScheduleFetch ==
  \E type \in ResourceTypes, id \in Ids :
    LET h == Len(scheduled) + 1
        issued == findRecord(supportsJSONAPIFields, FieldsForRecord, type, id,
                             fetchSnapshot).super
    IN  /\ tick <= MaxTicks
        /\ Len(scheduled) < MaxFetches
        /\ scheduled' = Append(scheduled,
                               [type |-> type, id |-> id, tick |-> tick])
        /\ IF coalesceFindRequests
           THEN /\ pending' = addToGroup(pending, type, id, h)
                /\ UNCHANGED dispatched
           ELSE /\ dispatched' =
                     dispatched \o [i \in 1..Len(issued) |->
                                      [request |-> issued[i], tick |-> tick,
                                       handles |-> {h}]]
                /\ UNCHANGED pending
        /\ UNCHANGED <<coalesceFindRequests, tick>>
        /\ UNCHANGED responseVars
        /\ UNCHANGED fieldVars

\* The end of the tick: every group issues its one findMany request and is
\* destroyed.
Flush ==
  /\ tick <= MaxTicks
  /\ dispatched' =
       dispatched \o [i \in 1..Len(pending) |->
                        [request |-> findMany(pending[i].type, pending[i].ids),
                         tick |-> tick, handles |-> pending[i].handles]]
  /\ pending' = <<>>
  /\ tick' = tick + 1
  /\ UNCHANGED <<coalesceFindRequests, scheduled>>
  /\ UNCHANGED responseVars
  /\ UNCHANGED fieldVars

NextCoalesce ==
  \/ ScheduleFetch
  \/ Flush

SpecCoalesce == InitAnyCoalesce /\ [][NextCoalesce]_vars

-----------------------------------------------------------------------------
(* The dispatch of a request and the classification of its response *)

\* A response is [status, body]: the HTTP status, 0 for a transport failure,
\* and the body, an object with some of the keys data, errors and meta.

isSuccess(status) == (status >= 200 /\ status < 300) \/ status = 304

isInvalid(status) == status = 422

\* The detail message of an adapter error: built from the transport failure
\* reason or from the response body.
detailMessage(response) ==
  IF response.status = 0
  THEN <<"The adapter operation failed">>
  ELSE <<"Ember Data Request failed with the payload", response.body>>

\* handleResponse with 422 taken for any other failure.
handleResponse_NoInvalid(response) ==
  IF isSuccess(response.status)
  THEN [kind |-> "Success", payload |-> response.body]
  ELSE [kind |-> "AdapterError", status |-> response.status,
        detail |-> detailMessage(response)]

\* handleResponse handing the whole body of a 422 on.
handleResponse_KeepsBody(response) ==
  IF isSuccess(response.status)
  THEN [kind |-> "Success", payload |-> response.body]
  ELSE IF isInvalid(response.status)
       THEN [kind |-> "Invalid", errors |-> <<response.body>>]
       ELSE [kind |-> "AdapterError", status |-> response.status,
             detail |-> detailMessage(response)]

\* The outcome a response is classified as: Success with the body, Invalid
\* with the value of the body's errors key alone (an optional value), or
\* AdapterError with the status and a detail message.
handleResponse(response) ==
  IF isSuccess(response.status)
  THEN [kind |-> "Success", payload |-> response.body]
  ELSE IF isInvalid(response.status)
       THEN [kind |-> "Invalid",
             errors |-> IF "errors" \in DOMAIN response.body
                        THEN <<response.body.errors>> ELSE <<>>]
       ELSE [kind |-> "AdapterError", status |-> response.status,
             detail |-> detailMessage(response)]

\* The resource objects of a type for a list of ids, as a response lists them.
resourcesOf(type, ids) ==
  [i \in 1..Len(ids) |-> [type |-> type, id |-> ids[i]]]

\* The responses the transport may give to a find request for a type: a
\* success holding one or both records, a validation failure, a server error.
FindResponses(type) ==
  { [status |-> 200, body |-> [data |-> resourcesOf(type, ids)]] :
      ids \in { << <<"1">> >>, << <<"1">>, <<"2">> >> } }
    \cup { [status |-> 422, body |-> [errors |-> <<"invalid">>]],
           [status |-> 500, body |-> <<>>] }

\* A function with one more argument.
withEntry(f, x, v) == [y \in DOMAIN f \cup {x} |-> IF y = x THEN v ELSE f[y]]

\* deliver failing every caller of a batch that lacks one of its ids.
deliver_FailsSiblings(outcome, handles, fetches) ==
  [h \in handles |->
     IF outcome.kind # "Success"
     THEN [kind |-> "rejected", error |-> outcome]
     ELSE IF \A g \in handles : \E n \in 1..Len(outcome.payload.data) :
               outcome.payload.data[n].id = fetches[g].id
          THEN [kind |-> "resolved",
                data |-> [type |-> fetches[h].type, id |-> fetches[h].id]]
          ELSE [kind |-> "notFound", id |-> fetches[h].id]]

\* What the callers waiting on a completed request get: on a success each
\* caller its own record's data, or not-found when the response lacks its id;
\* on a failure the error.
deliver(outcome, handles, fetches) ==
  [h \in handles |->
     IF outcome.kind # "Success"
     THEN [kind |-> "rejected", error |-> outcome]
     ELSE IF \E n \in 1..Len(outcome.payload.data) :
               outcome.payload.data[n].id = fetches[h].id
          THEN [kind |-> "resolved",
                data |-> CHOOSE d \in {outcome.payload.data[n] :
                                         n \in 1..Len(outcome.payload.data)} :
                           d.id = fetches[h].id]
          ELSE [kind |-> "notFound", id |-> fetches[h].id]]

\* completeRequest dispatching a failed request once more.
CompleteRequest_Retries(i, response) ==
  LET outcome == handleResponse(response)
      given == deliver(outcome, dispatched[i].handles, scheduled)
  IN  /\ i \in 1..Len(dispatched)
      /\ i \notin DOMAIN outcomes
      /\ outcomes' = withEntry(outcomes, i, outcome)
      /\ results' = [h \in DOMAIN results \cup DOMAIN given |->
                       IF h \in DOMAIN given THEN given[h] ELSE results[h]]
      /\ dispatched' = IF outcome.kind = "AdapterError"
                          /\ Len(dispatched) < MaxFetches
                       THEN Append(dispatched, dispatched[i])
                       ELSE dispatched
      /\ UNCHANGED <<coalesceFindRequests, tick, scheduled, pending>>
      /\ UNCHANGED fieldVars

\* The transport completes the pending request at position i with a
\* response: the request gets its one outcome and its callers their results.
CompleteRequest(i, response) ==
  LET outcome == handleResponse(response)
      given == deliver(outcome, dispatched[i].handles, scheduled)
  IN  /\ i \in 1..Len(dispatched)
      /\ i \notin DOMAIN outcomes
      /\ outcomes' = withEntry(outcomes, i, outcome)
      /\ results' = [h \in DOMAIN results \cup DOMAIN given |->
                       IF h \in DOMAIN given THEN given[h] ELSE results[h]]
      /\ UNCHANGED <<coalesceFindRequests, tick, scheduled, pending,
                     dispatched>>
      /\ UNCHANGED fieldVars

Complete ==
  \E i \in 1..MaxFetches :
    /\ i <= Len(dispatched)
    /\ \E response \in FindResponses(
                         CHOOSE type \in ResourceTypes :
                           pathForType(type) = dispatched[i].request.url[1]) :
         CompleteRequest(i, response)

\* The number of fetches followed from their scheduling to their result.
MaxCallers == 2

\* The store schedules the fetch of a post, for at most MaxCallers callers.
SchedulePost ==
  /\ ScheduleFetch
  /\ Len(scheduled') <= MaxCallers
  /\ scheduled'[Len(scheduled')].type = "post"

NextDispatch ==
  \/ SchedulePost
  \/ Flush
  \/ Complete

\* Once dispatched, a request runs to completion.
Fairness ==
  \A i \in 1..MaxFetches :
    WF_vars(\E response \in FindResponses("post") : CompleteRequest(i, response))

SpecDispatch == InitAnyCoalesce /\ [][NextDispatch]_vars /\ Fairness

-----------------------------------------------------------------------------
(* The outcome of a findRecord *)

\* The transport completes the request of the last findRecord: the call gets
\* its outcome; the adapter runs no code of its own on it.
CompleteFindRecord ==
  \E response \in FindResponses(modelName(call.snapshot.record)) :
    /\ call.op = "findRecord"
    /\ call.super # <<>>
    /\ call.outcome = <<>>
    /\ call' = [call EXCEPT !.outcome = <<handleResponse(response)>>]
    /\ UNCHANGED <<supportsJSONAPIFields, FieldsForRecord>>
    /\ UNCHANGED coalesceVars

NextFetch ==
  \/ Next
  \/ CompleteFindRecord

SpecFetch == Init /\ [][NextFetch]_vars

-----------------------------------------------------------------------------
(* The calls of the request methods *)

\* The field histories a call may find: none, or one entry for a record.
Histories == { <<>>, [r \in {"r1"} |-> << [a |-> <<"x">>] >>] }

\* The lists of ids findMany is called with.
IdLists == UNION { [1..n -> Ids] : n \in 1..MaxIds }

\* The queries RESTAdapter.buildQuery may hand to buildQuery.
BaseQueries ==
  { <<>>, [include |-> <<"a">>],
    [include |-> <<"a">>, fields |-> [b |-> <<"y">>]] }

\* The headers RESTAdapter.ajaxOptions may hand to ajaxOptions.
ParentHeaders ==
  { <<>>, [Accept |-> "text/html"], [Accept |-> ""],
    [Accept |-> "application/vnd.api+json"], [Authorization |-> "token"],
    [Accept |-> "text/html", Authorization |-> "token"] }

\* The options RESTAdapter.ajaxOptions may hand to ajaxOptions.
ParentHashes ==
  [url : {<<"posts">>}, type : {"GET", "PATCH"}, headers : ParentHeaders]

\* The snapshots updateRecord is called with.
UpdateSnapshots ==
  [record : {"r1"}, id : Ids \cup { <<"1", "2", "3">> },
   attributes : { <<>>, [title |-> "a"], [title |-> "b"] }]

InitMethods ==
  /\ supportsJSONAPIFields \in BOOLEAN
  /\ FieldsForRecord \in Histories
  /\ call = NoCall
  /\ InitCoalesce

\* The store calls findMany with a list of ids.
CallFindMany ==
  \E name \in ResourceTypes, ids \in IdLists :
    /\ call' = [op |-> "findMany", name |-> name, ids |-> ids,
                before |-> FieldsForRecord,
                ajax |-> <<findMany(name, ids)>>]
    /\ UNCHANGED <<supportsJSONAPIFields, FieldsForRecord>>
    /\ UNCHANGED coalesceVars

\* RESTAdapter.findRecord calls buildQuery with a snapshot.
CallBuildQuery ==
  \E snapshot \in Snapshots, query \in BaseQueries :
    /\ call' = [op |-> "buildQuery", snapshot |-> snapshot, query |-> query,
                before |-> FieldsForRecord,
                returns |-> buildQueryFrom(query, snapshot)]
    /\ UNCHANGED <<supportsJSONAPIFields, FieldsForRecord>>
    /\ UNCHANGED coalesceVars

\* RESTAdapter.ajax calls ajaxOptions.
CallAjaxOptions ==
  \E hash \in ParentHashes :
    /\ call' = [op |-> "ajaxOptions", hash |-> hash,
                before |-> FieldsForRecord,
                returns |-> ajaxOptions(hash)]
    /\ UNCHANGED <<supportsJSONAPIFields, FieldsForRecord>>
    /\ UNCHANGED coalesceVars

\* The store calls updateRecord with a snapshot.
CallUpdateRecord ==
  \E name \in ResourceTypes, snapshot \in UpdateSnapshots :
    /\ call' = [op |-> "updateRecord", name |-> name, snapshot |-> snapshot,
                before |-> FieldsForRecord,
                ajax |-> <<updateRecord(name, snapshot)>>]
    /\ UNCHANGED <<supportsJSONAPIFields, FieldsForRecord>>
    /\ UNCHANGED coalesceVars

NextMethods ==
  \/ SetSupportsJSONAPIFields
  \/ CallFindMany
  \/ CallBuildQuery
  \/ CallAjaxOptions
  \/ CallUpdateRecord

SpecMethods == InitMethods /\ [][NextMethods]_vars

-----------------------------------------------------------------------------
(* The classification of a response *)

\* The statuses a response may have: 0 for a transport failure, or an HTTP
\* status code.
Statuses == {0} \cup (100..599)

\* The bodies a response may have.
Bodies ==
  { <<>>,
    [data |-> [id |-> <<"1">>]],
    [errors |-> <<"invalid">>],
    [errors |-> <<"invalid">>, data |-> [id |-> <<"1">>]],
    [errors |-> <<>>, meta |-> "m"],
    [data |-> [id |-> <<"1">>], meta |-> "m"] }

Responses == [status : Statuses, body : Bodies]

InitClassify ==
  /\ supportsJSONAPIFields = FALSE
  /\ FieldsForRecord = <<>>
  /\ call \in [op : {"response"}, response : Responses, outcome : { <<>> }]
  /\ InitCoalesce

\* The adapter classifies the response the transport gave.
Classify ==
  /\ call.op = "response"
  /\ call.outcome = <<>>
  /\ call' = [call EXCEPT !.outcome = <<handleResponse(call.response)>>]
  /\ UNCHANGED <<supportsJSONAPIFields, FieldsForRecord>>
  /\ UNCHANGED coalesceVars

NextClassify == Classify

SpecClassify == InitClassify /\ [][NextClassify]_vars

-----------------------------------------------------------------------------
(* What the claims speak of *)

\* The last call was shouldReloadRecord, made with field tracking enabled and
\* with a field selection in the snapshot's adapterOptions.
TrackedReload ==
  /\ call.op = "shouldReloadRecord"
  /\ call.tracking
  /\ snapshotFieldsOf(call.snapshot) # <<>>

\* The field selection, the record and the histories of the last call.
Requested == snapshotFieldsOf(call.snapshot)[1]
Before == call.before
After == History(FieldsForRecord, call.snapshot.record)

\* The set of field names a comma-delimited list names.
Names(s) == {fieldList(s)[i] : i \in 1..Len(fieldList(s))}

\* The field names an entry holds for a key: none when it lacks the key.
NamesHeld(entry, key) ==
  IF key \in DOMAIN entry THEN Names(entry[key]) ELSE {}

\* An entry covers a request: for every key of the request, the names
\* requested are among the names the entry holds.
Covers(entry, request) ==
  \A key \in DOMAIN request : Names(request[key]) \subseteq NamesHeld(entry, key)

IsPrefix(s, t) == Len(s) <= Len(t) /\ SubSeq(t, 1, Len(s)) = s

-----------------------------------------------------------------------------
\* C1: with field tracking enabled, shouldReloadRecord with a field
\* selection F on a record that has no history returns true and leaves the
\* one-entry history [F].
C1_FirstRequestFetches ==
  (TrackedReload /\ Before = <<>>)
    => (call.returns = <<TRUE>> /\ After = <<Requested>>)

C1_Witness ==
  /\ TrackedReload
  /\ Before = <<>>
  /\ Requested = [a |-> <<"x">>]
  /\ After = << [a |-> <<"x">>] >>

\* C2: with field tracking enabled, whenever a single entry of the history
\* covers the requested selection, shouldReloadRecord returns false and
\* leaves the history as it was, for every selection.
C2_CoveredRequestSkips ==
  (TrackedReload /\ \E n \in 1..Len(Before) : Covers(Before[n], Requested))
    => (call.returns = <<FALSE>> /\ After = Before)

\* C3: with field tracking enabled and a history that is not empty, a
\* shouldReloadRecord that returns true leaves the history it found with the
\* requested selection appended as its last entry.
C3_FetchAppendsOneEntry ==
  (TrackedReload /\ Before # <<>> /\ call.returns = <<TRUE>>)
    => After = Append(Before, Requested)

C3_Witness ==
  /\ TrackedReload
  /\ Before = << [a |-> <<"x">>] >>
  /\ call.returns = <<TRUE>>
  /\ Len(After) = 2

\* C4: with field tracking enabled, a request naming, for some key, a field
\* that no history entry holds for that key makes shouldReloadRecord return
\* true; the refetch is suppressed only when some entry covers the request.
C4_MoreFieldsAlwaysFetch ==
  TrackedReload =>
    /\ (\E key \in DOMAIN Requested : \E name \in Names(Requested[key]) :
          \A n \in 1..Len(Before) : name \notin NamesHeld(Before[n], key))
         => call.returns = <<TRUE>>
    /\ call.returns = <<FALSE>>
         => \E n \in 1..Len(Before) : Covers(Before[n], Requested)

C4_Witness ==
  /\ TrackedReload
  /\ Before = << [a |-> <<"x">>] >>
  /\ Requested = [a |-> <<"x", ",", "y">>]
  /\ call.returns = <<TRUE>>

\* C5: with field tracking enabled, once shouldReloadRecord has been called
\* with a selection on a record, the next call with the identical selection
\* on the same record returns false.
C5_IdenticalRequestSkips ==
  [][(/\ TrackedReload
      /\ supportsJSONAPIFields' = supportsJSONAPIFields
      /\ call'.op = "shouldReloadRecord"
      /\ call'.tracking
      /\ call'.snapshot = call.snapshot)
       => call'.returns = <<FALSE>>]_vars

\* C6: with field tracking disabled, shouldReloadRecord returns false for
\* every snapshot, whatever its fields and whatever history the record has.
C6_DisabledNeverReloads ==
  (call.op = "shouldReloadRecord" /\ ~call.tracking)
    => call.returns = <<FALSE>>

C6_Witness ==
  /\ call.op = "shouldReloadRecord"
  /\ ~call.tracking
  /\ snapshotFieldsOf(call.snapshot) = << [a |-> <<"x", ",", "y">>] >>
  /\ Before = << [a |-> <<"x">>] >>
  /\ call.returns = <<FALSE>>

\* C7: over every step, whatever the call, the flag and the fields, the
\* history of each record before the step is a prefix of its history after.
C7_HistoryNeverShrinks ==
  [][\A r \in Records :
       IsPrefix(History(FieldsForRecord, r), History(FieldsForRecord', r))]_vars

C7_Witness ==
  /\ call.op = "findRecord"
  /\ Len(Before) = 2
  /\ Len(After) = 3
  /\ History(FieldsForRecord, "r2") = <<>>

\* The histories that differ from h only in how the strings of its entries
\* are written: the same keys and, for each key, the same set of names.
SameNames(e, f) ==
  DOMAIN e = DOMAIN f /\ \A key \in DOMAIN e : Names(e[key]) = Names(f[key])

Rewritings(h) ==
  {g \in [1..Len(h) -> FieldSelections] :
     \A n \in 1..Len(h) : SameNames(h[n], g[n])}

\* C8: the result of shouldReloadRecord depends only on the set of field
\* names per key: writing the strings of the request or of a history entry
\* differently (order, repeats, whitespace) never changes the result.
C8_ResultIsSetBased ==
  TrackedReload =>
    \A g \in Rewritings(Before) :
      \A F \in {G \in FieldSelections : SameNames(Requested, G)} :
        captureFields([r \in {"r1"} |-> g], "r1", F).returns = call.returns[1]

-----------------------------------------------------------------------------
(* What the claims on coalescing speak of *)

\* The resource type and the ids a dispatched request asks for, read from
\* its URL and its filter[id].
typeOfRequest(request) ==
  CHOOSE type \in ResourceTypes : pathForType(type) = request.url[1]

idsOfRequest(request) ==
  IF "filter" \in DOMAIN request.data
  THEN split(request.data.filter.id)
  ELSE <<request.url[2]>>

RECURSIVE firstScheduled(_, _, _)
\* The ids of the fetches of a type scheduled in a tick, each once, in the
\* order they were first scheduled.
firstScheduled(fetches, type, t) ==
  IF fetches = <<>> THEN <<>>
  ELSE LET init == firstScheduled(SubSeq(fetches, 1, Len(fetches) - 1), type, t)
           last == fetches[Len(fetches)]
       IN  IF last.type = type /\ last.tick = t
              /\ \A j \in 1..Len(init) : init[j] # last.id
           THEN Append(init, last.id)
           ELSE init

\* The dispatched requests for a type issued in a tick.
RequestsFor(type, t) ==
  {i \in 1..Len(dispatched) :
     dispatched[i].tick = t /\ typeOfRequest(dispatched[i].request) = type}

\* The dispatched requests that include a scheduled fetch: its caller waits
\* on the request and the request asks for its id.
RequestsIncluding(h) ==
  {i \in 1..Len(dispatched) :
     /\ h \in dispatched[i].handles
     /\ \E j \in 1..Len(idsOfRequest(dispatched[i].request)) :
          idsOfRequest(dispatched[i].request)[j] = scheduled[h].id}

-----------------------------------------------------------------------------
\* C9: with coalesceFindRequests = true, the fetches of one resource type
\* scheduled within one tick are flushed as exactly one request, a GET whose
\* filter[id] lists the accumulated ids in first-scheduled order.
C9_OneRequestPerTickAndType ==
  coalesceFindRequests =>
    \A type \in ResourceTypes : \A t \in 1..(tick - 1) :
      LET ids == firstScheduled(scheduled, type, t)
      IN  IF ids = <<>>
          THEN RequestsFor(type, t) = {}
          ELSE /\ Cardinality(RequestsFor(type, t)) = 1
               /\ \A i \in RequestsFor(type, t) :
                    /\ dispatched[i].request.verb = "GET"
                    /\ "filter" \in DOMAIN dispatched[i].request.data
                    /\ idsOfRequest(dispatched[i].request) = ids

C9_Witness ==
  /\ coalesceFindRequests
  /\ Len(scheduled) = 2
  /\ dispatched =
       << [request |-> [verb |-> "GET", url |-> <<"posts">>,
                        data |-> [filter |-> [id |-> <<"1", ",", "2">>]]],
           tick |-> 1, handles |-> {1, 2}] >>

\* C10: fetches of different ticks or of different resource types are never
\* merged: a dispatched request asks only for ids scheduled in its tick for
\* its type, every fetch that was flushed (or, without coalescing, scheduled)
\* is included in exactly one request and any other in none, and no group
\* outlives the flush of its tick.
C10_NeverMergedAcrossTicksOrTypes ==
  /\ \A i \in 1..Len(dispatched) :
       /\ \A j \in 1..Len(idsOfRequest(dispatched[i].request)) :
            \E h \in dispatched[i].handles :
              scheduled[h] =
                [type |-> typeOfRequest(dispatched[i].request),
                 id |-> idsOfRequest(dispatched[i].request)[j],
                 tick |-> dispatched[i].tick]
       /\ \A h \in dispatched[i].handles :
            /\ scheduled[h].type = typeOfRequest(dispatched[i].request)
            /\ scheduled[h].tick = dispatched[i].tick
  /\ \A h \in 1..Len(scheduled) :
       Cardinality(RequestsIncluding(h)) =
         IF ~coalesceFindRequests \/ scheduled[h].tick < tick THEN 1 ELSE 0
  /\ \A g \in 1..Len(pending) :
       \A h \in pending[g].handles : scheduled[h].tick = tick
  /\ ~coalesceFindRequests => pending = <<>>

C10_Witness ==
  /\ coalesceFindRequests
  /\ scheduled = << [type |-> "post", id |-> <<"1">>, tick |-> 1],
                    [type |-> "comment", id |-> <<"1">>, tick |-> 1],
                    [type |-> "post", id |-> <<"2">>, tick |-> 2] >>
  /\ tick = 3
  /\ pending = <<>>
  /\ Len(dispatched) = 3
  /\ \A i \in 1..3 : dispatched[i].handles = {i}

-----------------------------------------------------------------------------
\* C11: with coalesceFindRequests = false every scheduled fetch issues its
\* own single-id request: there are as many dispatched requests as scheduled
\* fetches, the n-th request is the GET of the n-th fetch's record alone, and
\* no request carries a filter[id] of more than one id.
C11_UncoalescedOneRequestEach ==
  ~coalesceFindRequests =>
    /\ Len(dispatched) = Len(scheduled)
    /\ \A i \in 1..Len(dispatched) :
         /\ i <= Len(scheduled)
         /\ dispatched[i].handles = {i}
         /\ dispatched[i].tick = scheduled[i].tick
         /\ dispatched[i].request.verb = "GET"
         /\ dispatched[i].request.url =
              <<pathForType(scheduled[i].type), scheduled[i].id>>
         /\ Len(idsOfRequest(dispatched[i].request)) = 1

C11_Witness ==
  /\ ~coalesceFindRequests
  /\ tick = 1
  /\ Len(scheduled) = 2
  /\ scheduled[1].type = scheduled[2].type
  /\ dispatched[1].request.url = <<"comments", <<"1">>>>
  /\ dispatched[2].request.url = <<"comments", <<"2">>>>

-----------------------------------------------------------------------------

\* The ids a successful outcome's payload lists.
idsPresent(outcome) ==
  {outcome.payload.data[n].id : n \in 1..Len(outcome.payload.data)}

\* C12: when a batch completes with a success that lacks one of the batched
\* ids, only the caller of that id gets not-found; every sibling whose id is
\* present is resolved with its own record's data; and once the batch has
\* completed every caller in it has a result, which no caller has before.
C12_MissingIdFailsOnlyItsCaller ==
  /\ \A i \in DOMAIN outcomes :
       \A h \in dispatched[i].handles :
         /\ h \in DOMAIN results
         /\ outcomes[i].kind = "Success" =>
              IF scheduled[h].id \in idsPresent(outcomes[i])
              THEN results[h] = [kind |-> "resolved",
                                 data |-> [type |-> scheduled[h].type,
                                           id |-> scheduled[h].id]]
              ELSE results[h] = [kind |-> "notFound", id |-> scheduled[h].id]
  /\ \A h \in DOMAIN results :
       \E i \in DOMAIN outcomes : h \in dispatched[i].handles

C12_Witness ==
  /\ coalesceFindRequests
  /\ \E i \in DOMAIN outcomes :
       /\ dispatched[i].handles = {1, 2}
       /\ outcomes[i].kind = "Success"
       /\ results[1].kind = "resolved"
       /\ results[2].kind = "notFound"
-----------------------------------------------------------------------------

\* The request a fetch was dispatched in, as the set of its positions.
requestsOf(h) == {i \in 1..Len(dispatched) : h \in dispatched[i].handles}

\* A step leaves every outcome and every result already given as it is, and
\* a step that gives an outcome gives it to one request and dispatches none.
C16_Step ==
  /\ \A i \in DOMAIN outcomes :
       i \in DOMAIN outcomes' /\ outcomes'[i] = outcomes[i]
  /\ \A h \in DOMAIN results :
       h \in DOMAIN results' /\ results'[h] = results[h]
  /\ outcomes' # outcomes =>
       /\ dispatched' = dispatched
       /\ Cardinality(DOMAIN outcomes' \ DOMAIN outcomes) = 1

\* Every outcome belongs to a dispatched request and is one of the three
\* kinds, and a caller's result comes from the outcome of its own request.
C16_Terminal ==
  /\ \A i \in DOMAIN outcomes :
       /\ i \in 1..Len(dispatched)
       /\ outcomes[i].kind \in {"Success", "Invalid", "AdapterError"}
  /\ \A h \in DOMAIN results :
       /\ Cardinality(requestsOf(h)) = 1
       /\ \A i \in requestsOf(h) :
            /\ i \in DOMAIN outcomes
            /\ IF results[h].kind = "rejected"
               THEN results[h].error = outcomes[i]
                    /\ outcomes[i].kind # "Success"
               ELSE outcomes[i].kind = "Success"

\* C16: every dispatched request goes from Pending to exactly one of
\* Success, Invalid and AdapterError and stays there: it eventually completes,
\* it never gets a second outcome, it is never dispatched again, and its
\* outcome is never delivered for, or merged with, another request.
C16_OneTerminalOutcome ==
  /\ [][C16_Step]_vars
  /\ []C16_Terminal
  /\ \A i \in 1..MaxFetches :
       [](i <= Len(dispatched) => <>(i \in DOMAIN outcomes))

C16_Witness ==
  /\ Len(dispatched) = 2
  /\ DOMAIN outcomes = {1, 2}
  /\ outcomes[1].kind = "AdapterError"
  /\ outcomes[2].kind = "Invalid"
  /\ results[1].kind = "rejected"
-----------------------------------------------------------------------------

\* C13: findMany, for a non-empty list of ids, hands ajax one request: a GET
\* of the URL built for findMany, the path of the type alone, with filter.id
\* the ids in the order given with a comma between them; the field history
\* is what it was before the call.
C13_FindManyOneFilteredGet ==
  call.op = "findMany" =>
    /\ Len(call.ajax) = 1
    /\ call.ajax[1].verb = "GET"
    /\ call.ajax[1].url = <<pathForType(call.name)>>
    /\ DOMAIN call.ajax[1].data = {"filter"}
    /\ DOMAIN call.ajax[1].data.filter = {"id"}
    /\ split(call.ajax[1].data.filter.id) = call.ids
    /\ Len(call.ajax[1].data.filter.id) = 2 * Len(call.ids) - 1
    /\ FieldsForRecord = call.before

C13_Witness ==
  /\ call.op = "findMany"
  /\ call.name = "comment"
  /\ call.ids = << <<"2">>, <<"1">>, <<"2">> >>
  /\ call.ajax[1].data.filter.id = <<"2", ",", "1", ",", "2">>
  /\ FieldsForRecord # <<>>
-----------------------------------------------------------------------------

\* C18: buildQuery returns the base query with fields set to the fields of
\* the snapshot's adapterOptions when there is one, in place of any fields the
\* base query had, and the base query itself when adapterOptions or its
\* fields is absent; so it does whatever supportsJSONAPIFields is, and the
\* field history is what it was before the call.
C18_BuildQueryOverridesFields ==
  call.op = "buildQuery" =>
    /\ IF snapshotFieldsOf(call.snapshot) # <<>>
       THEN /\ DOMAIN call.returns = DOMAIN call.query \cup {"fields"}
            /\ call.returns.fields = snapshotFieldsOf(call.snapshot)[1]
            /\ \A k \in DOMAIN call.query \ {"fields"} :
                 call.returns[k] = call.query[k]
       ELSE call.returns = call.query
    /\ FieldsForRecord = call.before

C18_Witness ==
  /\ call.op = "buildQuery"
  /\ ~supportsJSONAPIFields
  /\ "fields" \in DOMAIN call.query
  /\ snapshotFieldsOf(call.snapshot) = << [a |-> <<"x">>] >>
  /\ call.returns.fields # call.query.fields
  /\ call.returns.include = call.query.include
-----------------------------------------------------------------------------

\* Apart from the Accept header, what ajaxOptions returns is what the parent
\* built: the same options, and the same other headers.
OnlyAcceptTouched ==
  /\ DOMAIN call.returns = DOMAIN call.hash
  /\ \A k \in DOMAIN call.hash \ {"headers"} : call.returns[k] = call.hash[k]
  /\ DOMAIN call.returns.headers = DOMAIN call.hash.headers \cup {"Accept"}
  /\ \A k \in DOMAIN call.hash.headers \ {"Accept"} :
       call.returns.headers[k] = call.hash.headers[k]

\* C19 as stated: ajaxOptions sets Accept to application/vnd.api+json
\* exactly when the options built by the parent carry no Accept header, keeps
\* an Accept header that is there, and changes nothing else.
C19_AcceptSetOnlyWhenAbsent ==
  call.op = "ajaxOptions" =>
    /\ call.returns.headers["Accept"] =
         IF "Accept" \in DOMAIN call.hash.headers
         THEN call.hash.headers["Accept"]
         ELSE "application/vnd.api+json"
    /\ OnlyAcceptTouched

\* C19: ajaxOptions sets Accept to application/vnd.api+json exactly when the
\* options built by the parent carry no Accept header or an empty one, keeps
\* an Accept header that is not empty, and changes nothing else.
C19_AcceptSetWhenAbsentOrEmpty ==
  call.op = "ajaxOptions" =>
    /\ call.returns.headers["Accept"] =
         IF "Accept" \in DOMAIN call.hash.headers
            /\ call.hash.headers["Accept"] # ""
         THEN call.hash.headers["Accept"]
         ELSE "application/vnd.api+json"
    /\ OnlyAcceptTouched

C19_Witness ==
  /\ call.op = "ajaxOptions"
  /\ "Accept" \in DOMAIN call.hash.headers
  /\ call.hash.headers["Accept"] = ""
  /\ call.returns.headers["Accept"] = "application/vnd.api+json"
-----------------------------------------------------------------------------

\* C20: updateRecord hands ajax one request: a PATCH, never a PUT or a POST,
\* of the URL built for the record's id with request type updateRecord (the
\* path of the type, then the id), whose body is the snapshot serialized by
\* serializeIntoHash, the resource under the data key; the field history is
\* what it was before the call.
C20_UpdateIsOnePatch ==
  call.op = "updateRecord" =>
    /\ Len(call.ajax) = 1
    /\ call.ajax[1].verb = "PATCH"
    /\ call.ajax[1].verb \notin {"PUT", "POST"}
    /\ call.ajax[1].url = <<pathForType(call.name), call.snapshot.id>>
    /\ call.ajax[1].data = serializeIntoHash(call.name, call.snapshot)
    /\ DOMAIN call.ajax[1].data = {"data"}
    /\ call.ajax[1].data.data.id = call.snapshot.id
    /\ call.ajax[1].data.data.attributes = call.snapshot.attributes
    /\ FieldsForRecord = call.before

C20_Witness ==
  /\ call.op = "updateRecord"
  /\ call.name = "post"
  /\ call.ajax[1].url = <<"posts", <<"1", "2", "3">> >>
  /\ call.ajax[1].verb = "PATCH"
  /\ call.snapshot.attributes # <<>>
  /\ FieldsForRecord # <<>>
-----------------------------------------------------------------------------

\* The response classified and its outcome.
Classified == call.op = "response" /\ call.outcome # <<>>

\* C14: the classification depends on the status alone and gives one of
\* three results: Success for 200 to 299 and for 304, Invalid for 422, and
\* AdapterError for every other status and for a transport failure, with
\* that status and a detail message that is not empty.
C14_ClassifiedByStatus ==
  Classified =>
    LET status == call.response.status
        outcome == call.outcome[1]
    IN  /\ outcome.kind \in {"Success", "Invalid", "AdapterError"}
        /\ outcome.kind = "Success" <=>
             (status \in 200..299 \/ status = 304)
        /\ outcome.kind = "Invalid" <=> status = 422
        /\ outcome.kind = "AdapterError" <=>
             status \notin (200..299) \cup {304, 422}
        /\ outcome.kind = "AdapterError" =>
             /\ outcome.status = status
             /\ outcome.detail # <<>>

C14_Witness ==
  /\ Classified
  /\ call.response.status = 500
  /\ call.outcome[1].kind = "AdapterError"
  /\ call.outcome[1].status = 500
  /\ call.outcome[1].detail # <<>>
-----------------------------------------------------------------------------

\* C15: a Success outcome carries the body of the response as it came, and
\* an Invalid outcome, of a 422, carries the value of the body's errors key
\* and nothing else of the body: no data, no meta.
C15_PayloadFixedByCategory ==
  Classified =>
    LET body == call.response.body
        outcome == call.outcome[1]
    IN  /\ outcome.kind = "Success" =>
             /\ DOMAIN outcome = {"kind", "payload"}
             /\ outcome.payload = body
        /\ outcome.kind = "Invalid" =>
             /\ DOMAIN outcome = {"kind", "errors"}
             /\ outcome.errors =
                  IF "errors" \in DOMAIN body THEN <<body.errors>> ELSE <<>>

C15_Witness ==
  /\ Classified
  /\ call.response.status = 422
  /\ DOMAIN call.response.body = {"errors", "data"}
  /\ call.outcome[1] = [kind |-> "Invalid", errors |-> << <<"invalid">> >>]
-----------------------------------------------------------------------------

\* The last call was a findRecord with fields, made with field tracking
\* enabled, and its request has ended in a failure.
FailedTrackedFetch ==
  /\ call.op = "findRecord"
  /\ call.tracking
  /\ snapshotFieldsOf(call.snapshot) # <<>>
  /\ call.outcome # <<>>
  /\ call.outcome[1].kind \in {"Invalid", "AdapterError"}

\* C17: the arrival of an outcome leaves every record's field history as it
\* was at dispatch, findRecord having recorded the requested fields before;
\* so after a findRecord with fields F that ends in Invalid or AdapterError,
\* a later shouldReloadRecord with F on the same record returns false.
C17_OutcomeLeavesHistory ==
  [][/\ call'.outcome # call.outcome /\ call'.outcome # <<>>
          => FieldsForRecord' = FieldsForRecord
     /\ (/\ FailedTrackedFetch
         /\ supportsJSONAPIFields
         /\ call'.op = "shouldReloadRecord"
         /\ call'.snapshot = call.snapshot)
          => call'.returns = <<FALSE>>]_vars
-----------------------------------------------------------------------------

\* C21: coverage is decided entry by entry, never by putting entries
\* together: with field tracking enabled, a request that no single entry of
\* the history covers, as {a: "x", b: "y"} against [{a: "x"}, {b: "y"}], and
\* a request naming a key that no entry holds, make shouldReloadRecord return
\* true and append the request.
C21_NoCoverageByCombination ==
  (/\ TrackedReload
   /\ \/ \A n \in 1..Len(Before) : ~Covers(Before[n], Requested)
      \/ \E key \in DOMAIN Requested :
           \A n \in 1..Len(Before) : key \notin DOMAIN Before[n])
    => (call.returns = <<TRUE>> /\ After = Append(Before, Requested))

C21_Witness ==
  /\ TrackedReload
  /\ Before = << [a |-> <<"x">>], [b |-> <<"y">>] >>
  /\ Requested = [a |-> <<"x">>, b |-> <<"y">>]
  /\ call.returns = <<TRUE>>
  /\ After = << [a |-> <<"x">>], [b |-> <<"y">>],
                [a |-> <<"x">>, b |-> <<"y">>] >>
-----------------------------------------------------------------------------

\* C22: findRecord calls the parent's findRecord once, whatever the flag,
\* the fields and the record's history, a covering entry included; and with
\* field tracking enabled and fields in the snapshot, the fields have been
\* captured when the parent is called: the history then is the history the
\* call leaves, the one it found or that one with the request appended.
C22_FindRecordAlwaysDelegates ==
  call.op = "findRecord" =>
    /\ Len(call.super) = 1
    /\ call.super[1] = superFindRecord(modelName(call.snapshot.record),
                                       recordId(call.snapshot.record),
                                       call.snapshot)
    /\ call.atSuper = <<FieldsForRecord>>
    /\ (call.tracking /\ snapshotFieldsOf(call.snapshot) # <<>>) =>
         /\ After # <<>>
         /\ After \in {Before, Append(Before, Requested)}
         /\ Before = <<>> => After = <<Requested>>

C22_Witness ==
  /\ call.op = "findRecord"
  /\ call.tracking
  /\ Before = << [a |-> <<"x", ",", "y">>] >>
  /\ snapshotFieldsOf(call.snapshot) = << [a |-> <<"x">>] >>
  /\ After = Before
  /\ Len(call.super) = 1
  /\ call.super[1].verb = "GET"
-----------------------------------------------------------------------------

\* The last call was made with field tracking disabled and with fields in
\* the snapshot, tracking has been enabled since, and the record of the call
\* has no history.
UntrackedThenEnabled ==
  /\ call.op \in {"findRecord", "shouldReloadRecord"}
  /\ ~call.tracking
  /\ snapshotFieldsOf(call.snapshot) # <<>>
  /\ supportsJSONAPIFields
  /\ History(FieldsForRecord, call.snapshot.record) = <<>>

\* C23: while field tracking is disabled, a findRecord or shouldReloadRecord
\* leaves every record's history as it is and shouldReloadRecord answers
\* false whatever the history; so the fields passed then are not recorded,
\* and once tracking is enabled the first shouldReloadRecord with those
\* fields on a record without history returns true.
C23_DisabledTouchesNoHistory ==
  [][/\ (~supportsJSONAPIFields /\ ~supportsJSONAPIFields')
          => /\ FieldsForRecord' = FieldsForRecord
             /\ call'.op = "shouldReloadRecord" => call'.returns = <<FALSE>>
     /\ (/\ UntrackedThenEnabled
         /\ call'.op = "shouldReloadRecord"
         /\ call'.tracking
         /\ call'.snapshot = call.snapshot)
          => /\ call'.returns = <<TRUE>>
             /\ History(FieldsForRecord', call.snapshot.record)
                  = snapshotFieldsOf(call.snapshot)]_vars

C23_Witness ==
  /\ UntrackedThenEnabled
  /\ call.op = "findRecord"
  /\ call.deprecated
  /\ snapshotFieldsOf(call.snapshot) = << [a |-> <<"x">>] >>
  /\ FieldsForRecord = <<>>
-----------------------------------------------------------------------------

\* C24: in every reachable state, no entry of a record's history is covered
\* by an entry before it in that history; so no history holds two entries
\* naming the same fields, and a history is no longer than there are
\* distinct selections.
C24_NoEntryCoveredByEarlier ==
  \A r \in Records :
    LET h == History(FieldsForRecord, r)
    IN  /\ \A n \in 1..Len(h) : \A k \in 1..(n - 1) : ~Covers(h[k], h[n])
        /\ \A n \in 1..Len(h) : \A k \in 1..(n - 1) : ~SameNames(h[k], h[n])
        /\ Len(h) <= Cardinality(FieldSelections)
-----------------------------------------------------------------------------

\* C25: with field tracking enabled, shouldReloadRecord with a snapshot that
\* has no adapterOptions, or adapterOptions without fields, returns false and
\* leaves every record's history as it was, also for a record never fetched
\* with fields.
C25_NoFieldsNeverReloads ==
  (/\ call.op = "shouldReloadRecord"
   /\ call.tracking
   /\ snapshotFieldsOf(call.snapshot) = <<>>)
    => (call.returns = <<FALSE>> /\ FieldsForRecord = call.map)

C25_Witness ==
  /\ call.op = "shouldReloadRecord"
  /\ call.tracking
  /\ call.snapshot = [record |-> "r1", adapterOptions |-> << [fields |-> <<>>] >>]
  /\ call.returns = <<FALSE>>
  /\ "r1" \notin DOMAIN FieldsForRecord
  /\ FieldsForRecord # <<>>
-----------------------------------------------------------------------------

\* With field tracking enabled and the WeakMap map, shouldReloadRecord with
\* the selection F on the record r would return false.
WouldSkip(map, r, F) == ~captureFields(map, r, F).returns

\* C26: a skip is stable: once shouldReloadRecord, with field tracking
\* enabled, has returned false for a selection F on a record, every later
\* shouldReloadRecord with F on that record returns false too, whatever
\* findRecord and shouldReloadRecord calls with other fields come in between.
\* That is: a call made where it would skip returns false, after a false
\* result the same call would skip, and no call undoes a skip, for any
\* record and any selection, that there was before it.
C26_SkipIsStable ==
  call.op \in {"findRecord", "shouldReloadRecord"} =>
    /\ \A r \in Records : \A F \in FieldSelections :
         WouldSkip(call.map, r, F) => WouldSkip(FieldsForRecord, r, F)
    /\ TrackedReload =>
         /\ WouldSkip(call.map, call.snapshot.record, Requested)
              => call.returns = <<FALSE>>
         /\ call.returns = <<FALSE>>
              => WouldSkip(FieldsForRecord, call.snapshot.record, Requested)

C26_Witness ==
  /\ TrackedReload
  /\ call.returns = <<FALSE>>
  /\ Requested = [a |-> <<"x">>]
  /\ Before = << [a |-> <<"x", ",", "y">>], [b |-> <<"y">>] >>
-----------------------------------------------------------------------------

\* The WeakMap the last call found, with the history of every record but the
\* call's own dropped, or replaced by the history h.
OwnHistoryOnly ==
  [q \in DOMAIN call.map \cap {call.snapshot.record} |-> call.map[q]]

OthersHolding(h) ==
  [q \in Records \ {call.snapshot.record} |-> h] @@ OwnHistoryOnly

\* What the last call returned and the history it left to its record, had
\* it found the WeakMap map.
ResultWith(map) ==
  IF call.op = "shouldReloadRecord"
  THEN LET out == shouldReloadRecord(call.tracking, map, call.snapshot)
       IN  [returns |-> <<out.returns>>,
            history |-> History(out.map, call.snapshot.record)]
  ELSE LET out == findRecord(call.tracking, map,
                             modelName(call.snapshot.record),
                             recordId(call.snapshot.record), call.snapshot)
       IN  [returns |-> <<>>,
            history |-> History(out.map, call.snapshot.record)]

\* C27: histories are kept per record identity: a findRecord or
\* shouldReloadRecord on a record r leaves the history of every other record
\* as it was, another record of the same type and id string included, and
\* what it returns and leaves to r is what it would with the other records'
\* histories dropped or replaced.
C27_HistoriesIsolated ==
  call.op \in {"findRecord", "shouldReloadRecord"} =>
    /\ \A q \in Records \ {call.snapshot.record} :
         History(FieldsForRecord, q) = History(call.map, q)
    /\ \A map \in {OwnHistoryOnly, OthersHolding(<< [a |-> <<"x">>] >>),
                   OthersHolding(<< [b |-> <<"y">>], <<>> >>)} :
         /\ call.returns = ResultWith(map).returns
         /\ After = ResultWith(map).history

C27_Witness ==
  /\ TrackedReload
  /\ call.snapshot.record = "r2"
  /\ modelName("r1") = modelName("r2")
  /\ recordId("r1") = recordId("r2")
  /\ Requested = [a |-> <<"x">>]
  /\ History(call.map, "r1") = << [a |-> <<"x">>] >>
  /\ Before = <<>>
  /\ call.returns = <<TRUE>>
  /\ After = << [a |-> <<"x">>] >>
  /\ History(FieldsForRecord, "r1") = << [a |-> <<"x">>] >>
-----------------------------------------------------------------------------
====
